---- MODULE Spec2Model ----
(***************************************************************************)
(* Balance synchronisation, transaction-history synchronisation and the    *)
(* gasless-transfer flow of the Lazorkit Next.js starter.                  *)
(*                                                                         *)
(* Everything runs on one event loop: an action is one run-to-completion   *)
(* slice of a handler, from one await to the next.  RPC and wallet-SDK     *)
(* answers are inputs chosen by the environment.                           *)
(***************************************************************************)
EXTENDS Integers, Sequences, FiniteSets, TLC

VARIABLES
    \* chain (environment)
    chainSol,               \* native balance of the account, lamports
    chainUsdc,              \* token balance of the account, smallest units
    chainSigs,              \* signatures of the account, newest first
    chainTxs,               \* instruction lists of the transactions whose
                            \* signatures lie above SdkSignatureBase
    \* WalletContext state
    solBalance,
    usdcBalance,
    isLoadingBalances,
    balanceError,
    transactions,
    isLoadingTransactions,
    \* in-flight refreshBalances / refreshTransactionHistory invocations
    balCalls,
    balLatest,              \* the refreshBalances invocation started last
    histCalls,
    \* TransferForm state
    tokenType,
    recipientAddress,
    amount,
    showPreview,
    validation,
    \* useTransfer state
    isProcessing,
    transferError,
    transactionSignature,
    xfer,                   \* the transfer attempt in flight
    transferResult,         \* the TransferResult returned last
    nextSig,                \* next signature the wallet SDK hands out
    \* connection.ts calls followed step by step
    detail,                 \* the getTransactionDetails call under way
    wait,                   \* the waitForTransactionConfirmation call under way
    \* session: wallet SDK, LazorkitContext, useLazorkit, pages
    isConnected,            \* useWallet().isConnected
    isConnecting,
    contextError,           \* message of LazorkitContext's error, or Null
    operationError,         \* useLazorkit's operationError, per component
    hasAttemptedAuto,
    authCall,               \* the connect / reconnect / disconnect under way
    toasts,                 \* titles of the notifications shown
    route,
    \* validation.ts called on its own
    validateCall            \* arguments and results of the last call

vars == <<chainSol, chainUsdc, chainSigs, chainTxs,
          solBalance, usdcBalance, isLoadingBalances, balanceError,
          transactions, isLoadingTransactions,
          balCalls, balLatest, histCalls,
          tokenType, recipientAddress, amount, showPreview, validation,
          isProcessing, transferError, transactionSignature,
          xfer, transferResult, nextSig,
          detail, wait,
          isConnected, isConnecting, contextError, operationError,
          hasAttemptedAuto, authCall, toasts, route,
          validateCall>>

chainVars == <<chainSol, chainUsdc, chainSigs, chainTxs>>
balVars   == <<solBalance, usdcBalance, isLoadingBalances, balanceError,
               balCalls, balLatest>>
histVars  == <<transactions, isLoadingTransactions, histCalls>>
formInputs == <<tokenType, recipientAddress, amount, showPreview>>
formVars  == <<tokenType, recipientAddress, amount, showPreview, validation>>
xferVars  == <<isProcessing, transferError, transactionSignature,
               xfer, transferResult, nextSig>>
confVars  == <<detail, wait>>
pureVars  == <<validateCall>>
authVars  == <<isConnected, isConnecting, contextError, operationError,
               hasAttemptedAuto, authCall, toasts, route>>

(***************************************************************************)
(* Bounds of the model                                                     *)
(***************************************************************************)
MaxBalSteps == 1       \* chain balances range over 0..MaxBalSteps whole tokens
MaxSigs == 6           \* at most this many signatures land on the chain
MaxTransfers == 2      \* at most this many submissions are signed

(***************************************************************************)
(* Program constants                                                       *)
(***************************************************************************)
LAMPORTS_PER_SOL == 1000000000
USDC_DECIMALS == 6
SOL_DECIMALS == 9
MAX_TRANSACTION_HISTORY == 10
BATCH_SIZE == 5
UsdcUnitsPerToken == 1000000          \* Math.pow(10, USDC_DECIMALS)

Null == "null"

BalCallIds == {1, 2}    \* e.g. the interval tick and the post-transfer refresh
SolVals  == {k * LAMPORTS_PER_SOL : k \in 0..MaxBalSteps}
UsdcVals == {k * UsdcUnitsPerToken : k \in 0..MaxBalSteps}

(***************************************************************************)
(* String.prototype.includes on the error messages that occur              *)
(***************************************************************************)
MessageIncludes(message, needle) ==
    <<message, needle>> \in
        { <<"Invalid public key input", "Invalid public key">>,
          <<"USDC_MINT_ADDRESS is not configured", "USDC_MINT_ADDRESS">>,
          <<"USDC_MINT_ADDRESS is not configured", "USDC">>,
          <<"TokenOwnerOffCurveError", "TokenOwnerOffCurve">>,
          <<"owner does not match", "owner does not match">>,
          <<"WalletWindowClosedError", "WalletWindowClosedError">>,
          <<"NetworkError when attempting to fetch resource", "NetworkError">>,
          <<"NetworkError when attempting to fetch resource", "fetch">>,
          <<"Signature has expired: block height exceeded.", "block height exceeded">> }

\* message.toLowerCase().includes(needle)
MessageIncludesLower(message, needle) ==
    \/ MessageIncludes(message, needle)
    \/ <<message, needle>> \in { <<"Signing failed", "signing">> }

(***************************************************************************)
(* connection.ts: getSolBalance, getUsdcBalance, getWalletBalances         *)
(***************************************************************************)
\* What connection.getBalance can do: answer, or throw an Error, or throw a
\* value that is not an Error.
NativeRpcOutcomes ==
    { [threw |-> FALSE, isError |-> FALSE, message |-> Null],
      [threw |-> TRUE,  isError |-> TRUE,  message |-> "failed to get balance of account"],
      [threw |-> TRUE,  isError |-> TRUE,  message |-> "Invalid public key input"],
      [threw |-> TRUE,  isError |-> FALSE, message |-> Null] }

\* getSolBalance logs and rethrows whatever the RPC client threw.
getSolBalance(o) ==
    IF o.threw THEN [threw |-> TRUE, isError |-> o.isError, message |-> o.message, value |-> 0]
    ELSE [threw |-> FALSE, isError |-> FALSE, message |-> Null, value |-> chainSol]

\* What the token query meets: the associated-token-account derivation can
\* throw, the account can be missing, unparsed, or the RPC can throw.
TokenRpcOutcomes ==
    { [stage |-> "ok",      message |-> Null],
      [stage |-> "ata",     message |-> "TokenOwnerOffCurveError"],
      [stage |-> "ata",     message |-> "Invalid public key input"],
      [stage |-> "ata",     message |-> "ata derivation failed"],
      [stage |-> "missing", message |-> Null],
      [stage |-> "buffer",  message |-> Null],
      [stage |-> "rpc",     message |-> "owner does not match"],
      [stage |-> "rpc",     message |-> "429 Too Many Requests"] }

getUsdcBalance(o) ==
    CASE o.stage = "ata" ->
            IF \/ MessageIncludes(o.message, "TokenOwnerOffCurve")
               \/ MessageIncludes(o.message, "Invalid public key")
               \/ MessageIncludes(o.message, "USDC")
            THEN [threw |-> FALSE, value |-> 0]
            ELSE [threw |-> TRUE, value |-> 0]
      [] o.stage = "missing" -> [threw |-> FALSE, value |-> 0]
      [] o.stage = "buffer"  -> [threw |-> FALSE, value |-> 0]
      [] o.stage = "rpc" ->
            IF MessageIncludes(o.message, "owner does not match")
            THEN [threw |-> FALSE, value |-> 0]
            ELSE [threw |-> TRUE, value |-> 0]
      [] OTHER -> [threw |-> FALSE, value |-> chainUsdc]

\* The token amount getWalletBalances returns for a token query result r.
WalletUsdcAmount(r) ==
    IF r.threw THEN 0 ELSE r.value

\* The message refreshBalances derives from what it caught.
CaughtMessage(r) ==
    IF r.isError THEN r.message ELSE "Failed to fetch balances"

\* The balanceError refreshBalances leaves after catching `message`.
BalanceErrorAfter(message, previous) ==
    IF \/ MessageIncludes(message, "USDC_MINT_ADDRESS")
       \/ MessageIncludes(message, "Invalid public key")
    THEN previous
    ELSE message

IdleBalCall == [pc |-> "idle", sol |-> 0, usdc |-> 0, usdcThrew |-> FALSE,
                outcome |-> "none"]

(***************************************************************************)
(* Addresses and small helpers                                             *)
(***************************************************************************)
SelfAddr  == "SenderAddr1111111111111111111111111"   \* smartWalletPubkey
OtherAddr == "RecipientAddr2222222222222222222222"
ThirdAddr == "ThirdAddr33333333333333333333333333"
SelfAta   == "SenderTokenAccount11111111111111111"
OtherAta  == "RecipientTokenAccount22222222222222"

Min(a, b) == IF a < b THEN a ELSE b
Abs(x) == IF x < 0 THEN 0 - x ELSE x
Undefined == "undefined"

(***************************************************************************)
(* validation.ts, errors.ts, formatting.ts                                 *)
(***************************************************************************)
EmptyAddr  == ""
NotBase58Addr == "not-an-address"                       \* fails the alphabet/length test
BadKeyAddr == "zzzzzzzzzzzzzzzzzzzzzzzzzzzzzzzzzzzzzzzzzzzz" \* base58, but no 32-byte key

\* errors.ts isValidSolanaAddress: 32..44 characters of the base58 alphabet.
isValidSolanaAddress(address) ==
    address \in {BadKeyAddr, SelfAddr, OtherAddr, ThirdAddr}

\* Whether new PublicKey(address) returns instead of throwing.
PublicKeyConstructs(address) == address \in {SelfAddr, OtherAddr, ThirdAddr}

validateAddress(address) ==
    IF address = EmptyAddr THEN "Recipient address is required"
    ELSE IF ~isValidSolanaAddress(address) THEN "Invalid Solana address format"
    ELSE IF ~PublicKeyConstructs(address) THEN "Invalid Solana address"
    ELSE Null

validateNotOwnAddress(userAddress, recipient) ==
    IF userAddress = recipient THEN "Cannot send to your own address" ELSE Null

\* Amounts are decimal strings; numbers are kept in tenths of a token.
AmountScale == 10
NaN == -999999

\* parseFloat on the strings that occur.
parseFloat(str) ==
    CASE str = "0"   -> 0
      [] str = "0.5" -> 5
      [] str = "0.5000000" -> 5
      [] str = "0.5000000000" -> 5
      [] str = "-1"  -> 0 - 10
      [] str = "1"   -> 10
      [] str = "1.0" -> 10
      [] str = "1.5" -> 15
      [] OTHER       -> NaN

\* String(number) on the numbers that occur.
NumberToString(n) ==
    CASE n = 0  -> "0"
      [] n = 5  -> "0.5"
      [] n = 10 -> "1"
      [] n = 15 -> "1.5"
      [] OTHER  -> "NaN"

\* (str.split('.')[1] || '').length
DecimalCount(str) ==
    CASE str \in {"0.5", "1.5", "1.0"} -> 1
      [] str = "0.5000000" -> 7
      [] str = "0.5000000000" -> 10
      [] OTHER -> 0

\* formatting.ts parseAmountInput: null (NaN here) unless a positive number.
parseAmountInput(input) ==
    LET parsed == parseFloat(input) IN
    IF input = "" \/ parsed = NaN \/ parsed <= 0 THEN NaN ELSE parsed

\* parsed > balance, for parsed in tenths of a token and balance =
\* units / unitsPerToken.
ExceedsBalance(parsed, units, unitsPerToken) ==
    parsed > units \div (unitsPerToken \div AmountScale)

\* parsed > maxAmount, maxAmount = 10000 tokens
ExceedsMaxAmount(parsed) == parsed > 10000 * AmountScale

validateAmount(str, units, unitsPerToken, decimals) ==
    LET parsed == parseFloat(str) IN
    IF str = "" THEN "Amount is required"
    ELSE IF parsed = NaN THEN "Please enter a valid amount"
    ELSE IF parsed <= 0 THEN "Amount must be greater than 0"
    ELSE IF ExceedsBalance(parsed, units, unitsPerToken) THEN "Insufficient balance"
    ELSE IF ExceedsMaxAmount(parsed) THEN "Amount exceeds maximum of 10000. Please verify."
    ELSE IF DecimalCount(str) > decimals THEN "Too many decimal places (max 6)"
    ELSE Undefined

\* validateTransfer(recipientAddress, amount, balance); validateAmount runs
\* with its default of 6 decimals.
validateTransfer(recipient, str, units, unitsPerToken) ==
    LET addressError == validateAddress(recipient)
        amountError == validateAmount(str, units, unitsPerToken, 6)
    IN  [isValid |-> addressError = Null /\ amountError = Undefined,
         addressError |-> IF addressError = Null THEN Undefined ELSE addressError,
         amountError |-> amountError]

\* formatting.ts solToLamports / tokenToUsdc: Math.floor(tokens * units),
\* for an amount given in tenths of a token.
solToLamports(tenths) == tenths * (LAMPORTS_PER_SOL \div AmountScale)
tokenToUsdc(tenths) == tenths * (UsdcUnitsPerToken \div AmountScale)

\* errors.ts mapErrorToMessage (ERROR_MESSAGES keys never occur in the
\* messages of this model).
mapErrorToMessage(message, defaultMessage) ==
    IF MessageIncludes(message, "DialogManager") \/ MessageIncludes(message, "portal")
    THEN IF MessageIncludes(message, "sign") \/ MessageIncludesLower(message, "signing")
         THEN "Failed to sign transaction. Please try again."
         ELSE "Failed to communicate with the authentication portal. Please try again or reconnect your wallet."
    ELSE IF \/ MessageIncludes(message, "sign") \/ MessageIncludesLower(message, "signing")
            \/ MessageIncludes(message, "SigningError") \/ MessageIncludes(message, "passkey")
    THEN "Failed to sign transaction. Please try again."
    ELSE IF \/ MessageIncludes(message, "passkeyMismatch")
            \/ MessageIncludes(message, "WalletWindowClosedError")
            \/ MessageIncludes(message, "credential") \/ MessageIncludes(message, "WebAuthn")
    THEN "Passkey verification failed. Please authenticate again."
    ELSE IF MessageIncludes(message, "insufficientBalance") \/ MessageIncludes(message, "Insufficient funds")
    THEN "Insufficient balance to complete this transaction."
    ELSE IF MessageIncludes(message, "NetworkError") \/ MessageIncludes(message, "fetch")
    THEN "Network error. Please check your connection and try again."
    ELSE IF MessageIncludes(message, "RpcError") \/ MessageIncludes(message, "rpc")
    THEN "RPC error. Please try again or switch to a different RPC endpoint."
    ELSE IF MessageIncludes(message, "InvalidPublicKey") \/ MessageIncludes(message, "PublicKeyError")
    THEN "Invalid recipient address. Please check and try again."
    ELSE IF MessageIncludes(message, "timeout") \/ MessageIncludes(message, "Timeout")
    THEN "Transaction confirmation timed out. Please check Solscan for status."
    ELSE defaultMessage

(***************************************************************************)
(* TransferForm: the validation effect                                     *)
(***************************************************************************)
\* balance = tokenType === 'SOL' ? lamportsToSol(solBalance) : usdcToToken(usdcBalance)
BalanceUnits(token, sol, usdc) == IF token = "SOL" THEN sol ELSE usdc
UnitsPerToken(token) == IF token = "SOL" THEN LAMPORTS_PER_SOL ELSE UsdcUnitsPerToken

\* The validation effect: validateTransfer(recipientAddress,
\* String(parseAmountInput(amount) || 0), balance).
ValidationOf(token, recipient, input, sol, usdc) ==
    LET parsed == parseAmountInput(input)
        str == NumberToString(IF parsed = NaN THEN 0 ELSE parsed)
    IN  validateTransfer(recipient, str, BalanceUnits(token, sol, usdc),
                         UnitsPerToken(token))


(***************************************************************************)
(* validation.ts called on its own: validateTransfer for the recipient,    *)
(* the amount string and the balance, validateNotOwnAddress for the        *)
(* recipient                                                               *)
(***************************************************************************)
NoValidateCall ==
    [called |-> FALSE, token |-> "SOL", recipient |-> "", amount |-> "",
     units |-> 0, result |-> validateTransfer("", "", 0, LAMPORTS_PER_SOL),
     ownError |-> Null]

ValidateTransferCall(token, recipient, str, units) ==
    validateCall' =
       [called |-> TRUE, token |-> token, recipient |-> recipient,
        amount |-> str, units |-> units,
        result |-> validateTransfer(recipient, str, units, UnitsPerToken(token)),
        ownError |-> validateNotOwnAddress(SelfAddr, recipient)]

(***************************************************************************)
(* WalletContext.refreshBalances                                           *)
(***************************************************************************)
\* refreshBalances up to its first await (the native query is issued).
RefreshBalancesStart(c) ==
    /\ balCalls[c].pc = "idle"
    /\ isLoadingBalances' = TRUE
    /\ balanceError' = Null
    /\ balCalls' = [balCalls EXCEPT ![c] = [IdleBalCall EXCEPT !.pc = "getSol"]]
    /\ balLatest' = c
    /\ UNCHANGED <<solBalance, usdcBalance>>

\* The native query settles.  A throw leaves getWalletBalances and lands in
\* the catch and finally blocks of refreshBalances.
GetSolBalanceReturn(c, o) ==
    /\ balCalls[c].pc = "getSol"
    /\ LET r == getSolBalance(o) IN
       IF r.threw
       THEN /\ balanceError' = BalanceErrorAfter(CaughtMessage(r), balanceError)
            /\ isLoadingBalances' = FALSE
            /\ balCalls' = [balCalls EXCEPT ![c] =
                              [IdleBalCall EXCEPT !.outcome = "failed"]]
       ELSE /\ balCalls' = [balCalls EXCEPT ![c].pc = "delay", ![c].sol = r.value]
            /\ UNCHANGED <<balanceError, isLoadingBalances>>
    /\ UNCHANGED <<solBalance, usdcBalance, balLatest>>

\* The 100 ms pause between the two RPC calls elapses; the token query is
\* issued.
BalanceDelayElapsed(c) ==
    /\ balCalls[c].pc = "delay"
    /\ balCalls' = [balCalls EXCEPT ![c].pc = "getUsdc"]
    /\ UNCHANGED <<solBalance, usdcBalance, isLoadingBalances, balanceError,
                   balLatest>>

\* The token query settles; getWalletBalances returns and refreshBalances
\* publishes both amounts and clears the loading flag.  The re-render runs
\* the validation effect of the transfer form on the new balance.
GetUsdcBalanceReturn(c, o) ==
    /\ balCalls[c].pc = "getUsdc"
    /\ LET r == getUsdcBalance(o)
           usdc == WalletUsdcAmount(r)
       IN  /\ solBalance' = balCalls[c].sol
           /\ usdcBalance' = usdc
           /\ balCalls' = [balCalls EXCEPT ![c] =
                  [pc |-> "idle", sol |-> balCalls[c].sol, usdc |-> usdc,
                   usdcThrew |-> r.threw, outcome |-> "ok"]]
           /\ validation' = ValidationOf(tokenType, recipientAddress, amount,
                                         balCalls[c].sol, usdc)
    /\ isLoadingBalances' = FALSE
    /\ UNCHANGED <<balanceError, balLatest>>

(***************************************************************************)
(* Chain (environment)                                                     *)
(***************************************************************************)
ChainSolChange(v) ==
    /\ v # chainSol
    /\ chainSol' = v
    /\ UNCHANGED <<chainUsdc, chainSigs, chainTxs>>

ChainUsdcChange(v) ==
    /\ v # chainUsdc
    /\ chainUsdc' = v
    /\ UNCHANGED <<chainSol, chainSigs, chainTxs>>


(***************************************************************************)
(* connection.ts: getRecentTransactions, getTransactionDetails,            *)
(* parseTransactionDetails                                                 *)
(***************************************************************************)
SysTransfer(src, dst, lamports) ==
    [program |-> "system", type |-> "transfer", source |-> src,
     destination |-> dst, amount |-> lamports]
TokenTransfer(src, dst, amt) ==
    [program |-> "spl-token", type |-> "transferChecked", source |-> src,
     destination |-> dst, amount |-> amt]
OtherInstruction ==
    [program |-> "compute-budget", type |-> "setLimit", source |-> "",
     destination |-> "", amount |-> 0]

\* Signatures above this base (those the wallet SDK hands out among them)
\* have their instruction lists in chainTxs; the ones below belong to the
\* fixed transactions of ChainTx.
SdkSignatureBase == 100

\* The parsed instruction list the chain holds for signature s.
ChainTx(s) ==
    CASE s > SdkSignatureBase -> chainTxs[s - SdkSignatureBase]
      [] s % 5 = 1 -> <<SysTransfer(OtherAddr, SelfAddr, 500000000)>>
      [] s % 5 = 2 -> <<OtherInstruction, SysTransfer(SelfAddr, OtherAddr, 250000000)>>
      [] s % 5 = 3 -> <<TokenTransfer(SelfAta, OtherAta, 750000)>>
      [] s % 5 = 4 -> <<OtherInstruction>>
      [] OTHER     -> <<SysTransfer(ThirdAddr, OtherAddr, 1000),
                        SysTransfer(SelfAddr, ThirdAddr, 2000),
                        SysTransfer(OtherAddr, SelfAddr, 3000)>>

\* A catch block that answers with a made-up signature.
SignaturesOnError_MadeUp == <<0>>

\* What the catch block of getRecentTransactions returns.
SignaturesOnError == <<>>

\* getRecentTransactions that ignores the limit.
getRecentTransactions_NoLimit(threw, limit) ==
    IF threw THEN SignaturesOnError ELSE chainSigs

\* getRecentTransactions: the newest `limit` signatures (never more than
\* 100), or the empty list when the RPC call throws.
getRecentTransactions(threw, limit) ==
    IF threw THEN SignaturesOnError
    ELSE SubSeq(chainSigs, 1, Min(Len(chainSigs), Min(limit, 100)))

\* What the RPC does for one getTransactionDetails call.
DetailRpcOutcomes == {"found", "notFound", "throw"}

\* getTransactionDetails: the transaction, or null when it is not found or
\* anything on the way throws.  <<>> stands for null, <<tx>> for a result.
getTransactionDetails(sig, o) ==
    IF o = "found" THEN <<ChainTx(sig)>> ELSE <<>>

\* The loop of parseTransactionDetails from instruction i on.
RECURSIVE ParseFrom(_, _, _)
ParseFrom(instructions, i, userAddr) ==
    IF i > Len(instructions)
    THEN [amount |-> 0, recipientAddress |-> "", type |-> "other"]
    ELSE LET ins == instructions[i] IN
         IF ins.program = "system" /\ ins.type = "transfer" /\ ins.source = userAddr
         THEN [amount |-> ins.amount, recipientAddress |-> ins.destination,
               type |-> "transfer"]
         ELSE IF ins.program = "system" /\ ins.type = "transfer"
                 /\ ins.destination = userAddr
         THEN [amount |-> ins.amount, recipientAddress |-> ins.source,
               type |-> "transfer"]
         ELSE IF ins.program = "spl-token"
                 /\ ins.type \in {"transfer", "transferChecked"}
         THEN [amount |-> ins.amount, recipientAddress |-> ins.destination,
               type |-> "transfer"]
         ELSE ParseFrom(instructions, i + 1, userAddr)

parseTransactionDetails(transaction, userAddr) ==
    ParseFrom(transaction, 1, userAddr)

(***************************************************************************)
(* WalletContext.refreshTransactionHistory                                 *)
(***************************************************************************)

\* The record built for a signature whose details were found.
ConfirmedRecord(sig, details, address) ==
    LET parsed == parseTransactionDetails(details, address)
        parsedTokenType == Undefined     \* the parser returns no tokenType
        decimals == IF parsedTokenType = "USDC" THEN 6 ELSE 9
    IN  [signature |-> sig,
         type |-> parsed.type,
         tokenType |-> IF parsedTokenType = Undefined THEN "SOL" ELSE parsedTokenType,
         amount |-> parsed.amount,
         recipientAddress |-> parsed.recipientAddress,
         status |-> "confirmed",
         description |->
            IF parsed.amount # 0
            THEN [text |-> "transfer", magnitude |-> Abs(parsed.amount),
                  decimals |-> decimals, token |-> parsedTokenType]
            ELSE [text |-> "Transaction", magnitude |-> 0, decimals |-> 0,
                  token |-> ""]]

\* The record synthesised for a signature without details.
PendingPlaceholder(sig) ==
    [signature |-> sig,
     type |-> "other",
     tokenType |-> "SOL",
     amount |-> 0,
     recipientAddress |-> "",
     status |-> "pending",
     description |-> [text |-> "Pending transaction", magnitude |-> 0,
                      decimals |-> 0, token |-> ""]]

\* BatchRecord without the null check on the fetched details.
BatchRecord_NoNullCheck(sig, o, address) ==
    LET details == getTransactionDetails(sig, o) IN
    ConfirmedRecord(sig, IF details # <<>> THEN details[1] ELSE <<>>, address)

\* One element of batchPromises, once its detail fetch has settled.
BatchRecord(sig, o, address) ==
    LET details == getTransactionDetails(sig, o) IN
    IF details # <<>> THEN ConfirmedRecord(sig, details[1], address)
    ELSE PendingPlaceholder(sig)

\* BatchIndices without the slice: every remaining signature at once.
BatchIndices_Unbatched(n, done) == (done + 1)..n

\* The indices of the batch that starts after `done` resolved signatures.
BatchIndices(n, done) == (done + 1)..Min(done + BATCH_SIZE, n)

\* AppendBatch with unshift instead of push.
AppendBatch_Unshift(txDetailsArray, batchResults, n) ==
    [k \in 1..Cardinality(DOMAIN batchResults) |->
        batchResults[Len(txDetailsArray) + k]] \o txDetailsArray

\* txDetailsArray.push(...batchResults): results in batch (index) order.
AppendBatch(txDetailsArray, batchResults, n) ==
    txDetailsArray \o
        [k \in 1..Cardinality(DOMAIN batchResults) |->
            batchResults[Len(txDetailsArray) + k]]

\* PublishedOnNoSignatures that returns early without publishing.
PublishedOnNoSignatures_KeepPrevious(previous) == previous

\* The list published when no signature came back.
PublishedOnNoSignatures(previous) == <<>>

\* A publication that merges the new records into the previous list.
PublishedList_Merge(txDetailsArray, previous) == txDetailsArray \o previous

\* The list published at the end of the batches.
PublishedList(txDetailsArray, previous) == txDetailsArray

HistCallIds == {1, 2}

IdleHistCall ==
    [pc |-> "idle", sigs |-> <<>>, inflight |-> {}, batchResults |-> <<>>,
     txDetailsArray |-> <<>>, outcomes |-> <<>>, fetches |-> 0,
     outcome |-> "none", replaced |-> <<>>, sigsFailed |-> FALSE,
     startedAt |-> 0]

SignaturesOf(list) == [k \in 1..Len(list) |-> list[k].signature]

\* refreshTransactionHistory up to its first await.  (startedAt notes how
\* far the submissions had come when the call started.)
RefreshTransactionHistoryStart(h) ==
    /\ histCalls[h].pc = "idle"
    /\ isLoadingTransactions' = TRUE
    /\ histCalls' = [histCalls EXCEPT ![h] =
          [IdleHistCall EXCEPT !.pc = "getSigs", !.startedAt = nextSig]]
    /\ UNCHANGED transactions

\* The signature list arrives (or the query throws inside
\* getRecentTransactions).  Zero signatures: publish [] and finish.
\* Otherwise the first batch of detail fetches is issued.
GetRecentTransactionsReturn(h, threw) ==
    /\ histCalls[h].pc = "getSigs"
    /\ LET sigs == getRecentTransactions(threw, MAX_TRANSACTION_HISTORY)
           n == Len(sigs)
       IN  IF n = 0
           THEN /\ transactions' = PublishedOnNoSignatures(transactions)
                /\ isLoadingTransactions' = FALSE
                /\ histCalls' = [histCalls EXCEPT ![h] =
                      [IdleHistCall EXCEPT !.outcome = "empty",
                                           !.replaced = SignaturesOf(transactions),
                                           !.sigsFailed = threw]]
           ELSE /\ histCalls' = [histCalls EXCEPT ![h] =
                      [IdleHistCall EXCEPT
                          !.pc = "batch", !.sigs = sigs,
                          !.sigsFailed = threw,
                          !.inflight = BatchIndices(n, 0),
                          !.outcomes = [k \in 1..n |-> "none"],
                          !.fetches = Cardinality(BatchIndices(n, 0))]]
                /\ UNCHANGED <<transactions, isLoadingTransactions>>

\* The detail fetch of signature number k settles.  When it is the last of
\* its batch, Promise.all resolves: the batch is appended, and either the
\* inter-batch pause starts or the list is published.
GetTransactionDetailsReturn(h, k, o) ==
    /\ histCalls[h].pc = "batch"
    /\ k \in histCalls[h].inflight
    /\ LET call == histCalls[h]
           n == Len(call.sigs)
           rec == BatchRecord(call.sigs[k], o, SelfAddr)
           results == [j \in (DOMAIN call.batchResults) \cup {k} |->
                          IF j = k THEN rec ELSE call.batchResults[j]]
           inflight == call.inflight \ {k}
           outcomes == [call.outcomes EXCEPT ![k] =
                           IF o = "found" THEN "found" ELSE "missing"]
       IN  IF inflight # {}
           THEN /\ histCalls' = [histCalls EXCEPT
                      ![h].inflight = inflight,
                      ![h].batchResults = results,
                      ![h].outcomes = outcomes]
                /\ UNCHANGED <<transactions, isLoadingTransactions>>
           ELSE LET arr == AppendBatch(call.txDetailsArray, results, n) IN
                IF Len(arr) < n
                THEN /\ histCalls' = [histCalls EXCEPT
                           ![h].pc = "pause",
                           ![h].inflight = {},
                           ![h].batchResults = <<>>,
                           ![h].txDetailsArray = arr,
                           ![h].outcomes = outcomes]
                     /\ UNCHANGED <<transactions, isLoadingTransactions>>
                ELSE /\ transactions' = PublishedList(arr, transactions)
                     /\ isLoadingTransactions' = FALSE
                     /\ histCalls' = [histCalls EXCEPT ![h] =
                           [IdleHistCall EXCEPT
                               !.sigs = call.sigs,
                               !.outcomes = outcomes,
                               !.fetches = call.fetches,
                               !.outcome = "published",
                               !.replaced = SignaturesOf(transactions)]]

\* The 200 ms pause between batches elapses; the next batch is issued.
BatchPauseElapsed(h) ==
    /\ histCalls[h].pc = "pause"
    /\ LET call == histCalls[h]
           next == BatchIndices(Len(call.sigs), Len(call.txDetailsArray))
       IN  histCalls' = [histCalls EXCEPT
               ![h].pc = "batch",
               ![h].inflight = next,
               ![h].fetches = call.fetches + Cardinality(next)]
    /\ UNCHANGED <<transactions, isLoadingTransactions>>

\* A transaction involving the account lands on the chain.
ChainLand ==
    /\ Len(chainSigs) < MaxSigs
    /\ chainSigs' = <<Len(chainSigs) + 1>> \o chainSigs
    /\ UNCHANGED <<chainSol, chainUsdc, chainTxs>>

(***************************************************************************)
(* TransferForm handlers                                                   *)
(***************************************************************************)
\* Each handler below includes the re-render it causes, in which the
\* validation effect runs on the new inputs.
SetTokenType(t) ==
    /\ t # tokenType
    /\ tokenType' = t
    /\ validation' = ValidationOf(t, recipientAddress, amount, solBalance, usdcBalance)
    /\ UNCHANGED <<recipientAddress, amount, showPreview>>

SetRecipientAddress(a) ==
    /\ a # recipientAddress
    /\ recipientAddress' = a
    /\ validation' = ValidationOf(tokenType, a, amount, solBalance, usdcBalance)
    /\ UNCHANGED <<tokenType, amount, showPreview>>

SetAmount(str) ==
    /\ str # amount
    /\ amount' = str
    /\ validation' = ValidationOf(tokenType, recipientAddress, str, solBalance, usdcBalance)
    /\ UNCHANGED <<tokenType, recipientAddress, showPreview>>

\* handleSubmit; the submit button is disabled while invalid or processing.
HandleSubmit ==
    /\ ~isProcessing
    /\ ~showPreview
    /\ validation.isValid
    /\ showPreview' = TRUE
    /\ UNCHANGED <<tokenType, recipientAddress, amount, validation>>

\* Cancel button, close button or backdrop of the preview.
ClosePreview ==
    /\ showPreview
    /\ showPreview' = FALSE
    /\ UNCHANGED <<tokenType, recipientAddress, amount, validation>>

(***************************************************************************)
(* useTransfer                                                             *)
(***************************************************************************)
IdleXfer == [pc |-> "idle", tokenType |-> "SOL", recipientAddress |-> "",
             amount |-> 0]

\* What the promise of transfer settled with: a TransferResult it resolved
\* to, or a rejection.
NoResult == [success |-> FALSE, signature |-> 0, error |-> Null, rejected |-> FALSE]
Failure(message) ==
    [success |-> FALSE, signature |-> 0, error |-> message, rejected |-> FALSE]
Success(sig) == [success |-> TRUE, signature |-> sig, error |-> Null, rejected |-> FALSE]
Rejection == [success |-> FALSE, signature |-> 0, error |-> Null, rejected |-> TRUE]

\* mapErrorToMessage reads error.message of whatever is not a string: a
\* thrown undefined (or null) makes it throw a TypeError itself.
MapErrorToMessageThrows(thrown) == thrown = Undefined

\* A finally block that is skipped when the catch block itself throws.
FinallyIsProcessing_Skipped(catchThrew) == catchThrew

\* finally { setIsProcessing(false) }: runs however try and catch ended.
FinallyIsProcessing(catchThrew) == FALSE

DefaultTransferError(token) ==
    IF token = "SOL" THEN "Transfer failed. Please try again."
    ELSE "USDC transfer failed. Please try again."

\* The amount of the instruction, in the smallest unit of the token.
SmallestUnits(token, tenths) ==
    IF token = "SOL" THEN solToLamports(tenths) ELSE tokenToUsdc(tenths)

\* The status useTransfer gives the record of a submitted transfer.
SubmittedStatus == "confirming"

\* The record transferSol / transferUsdc hand to addTransaction.
SpeculativeRecord(sig, token, recipient, tenths) ==
    [signature |-> sig,
     type |-> "transfer",
     tokenType |-> token,
     amount |-> 0 - SmallestUnits(token, tenths),
     recipientAddress |-> recipient,
     status |-> SubmittedStatus,
     description |-> [text |-> "Transferred", magnitude |-> tenths,
                      decimals |-> 1, token |-> token]]

\* A list update that puts the new record behind the existing ones.
addTransaction_Append(transaction, prev) ==
    SubSeq(prev, 1, Min(Len(prev), MAX_TRANSACTION_HISTORY - 1)) \o <<transaction>>

\* WalletContext.addTransaction
addTransaction(transaction, prev) ==
    <<transaction>> \o SubSeq(prev, 1, Min(Len(prev), MAX_TRANSACTION_HISTORY - 1))

\* The checks of recipient and amount skipped: the request goes on to the
\* public-key construction whatever its recipient and amount.
PreSignError_Unchecked(token, recipient, tenths) ==
    IF ~PublicKeyConstructs(recipient)
    THEN mapErrorToMessage("Invalid public key input", DefaultTransferError(token))
    ELSE Null

\* The checks transferSol / transferUsdc make before building the
\* instruction, for a connected wallet whose session check passes: the
\* error message, or Null.
PreSignError(token, recipient, tenths) ==
    IF validateNotOwnAddress(SelfAddr, recipient) # Null
    THEN validateNotOwnAddress(SelfAddr, recipient)
    ELSE IF tenths <= 0 THEN "Amount must be greater than 0"
    ELSE IF ~PublicKeyConstructs(recipient)
    THEN mapErrorToMessage("Invalid public key input", DefaultTransferError(token))
    ELSE Null

\* handleConfirmTransfer -> transfer -> transferSol / transferUsdc, up to
\* the first await.  A failing check ends the attempt at once; otherwise
\* the SOL instruction is handed to signAndSendTransaction, and the USDC
\* path first awaits the two associated-token-account derivations.
HandleConfirmTransfer ==
    /\ showPreview
    /\ ~isProcessing
    /\ xfer.pc = "idle"
    /\ parseAmountInput(amount) # NaN
    /\ LET tenths == parseAmountInput(amount)
           error == PreSignError(tokenType, recipientAddress, tenths)
       IN  IF error # Null
           THEN /\ transferError' = error
                /\ isProcessing' = FinallyIsProcessing(FALSE)
                /\ transferResult' = Failure(error)
                /\ xfer' = IdleXfer
           ELSE /\ transferError' = Null
                /\ isProcessing' = TRUE
                /\ transferResult' = NoResult
                /\ xfer' = [pc |-> IF tokenType = "SOL" THEN "awaitingSignature"
                                   ELSE "resolvingAta",
                            tokenType |-> tokenType,
                            recipientAddress |-> recipientAddress,
                            amount |-> tenths]
    /\ UNCHANGED <<transactionSignature, nextSig, transactions>>
    /\ UNCHANGED formVars

\* getAssociatedTokenAddress for sender and recipient settles (both are
\* awaited back to back; a throw of either lands in the same catch).
ResolveAtaReturn(threw) ==
    /\ xfer.pc = "resolvingAta"
    /\ IF threw
       THEN LET error == mapErrorToMessage("TokenOwnerOffCurveError",
                                           DefaultTransferError(xfer.tokenType))
            IN  /\ transferError' = error
                /\ isProcessing' = FinallyIsProcessing(FALSE)
                /\ transferResult' = Failure(error)
                /\ xfer' = IdleXfer
       ELSE /\ xfer' = [xfer EXCEPT !.pc = "awaitingSignature"]
            /\ UNCHANGED <<transferError, isProcessing, transferResult>>
    /\ UNCHANGED <<transactionSignature, nextSig, transactions>>
    /\ UNCHANGED formVars

\* The signature signAndSendTransaction resolves with on its n-th success.
SdkSignature(n) == SdkSignatureBase + n

\* signAndSendTransaction settles.  On a signature: record it, prepend the
\* speculative record, return success; handleConfirmTransfer then closes
\* the preview and clears the inputs.  On a rejection with an Error of
\* message o: map the error and return the failure.  On a rejection with
\* undefined: the catch block throws in mapErrorToMessage, the finally
\* block runs and the promise of transfer rejects.
SignAndSendReturn(o) ==
    /\ xfer.pc = "awaitingSignature"
    /\ IF o = "signed"
       THEN /\ nextSig <= MaxTransfers
            /\ LET sig == SdkSignature(nextSig) IN
               /\ transactionSignature' = sig
               /\ transactions' = addTransaction(
                     SpeculativeRecord(sig, xfer.tokenType, xfer.recipientAddress,
                                       xfer.amount), transactions)
               /\ transferResult' = Success(sig)
            /\ nextSig' = nextSig + 1
            /\ showPreview' = FALSE
            /\ recipientAddress' = ""
            /\ amount' = ""
            /\ validation' = ValidationOf(tokenType, "", "", solBalance, usdcBalance)
            /\ UNCHANGED <<transferError, tokenType>>
       ELSE /\ IF MapErrorToMessageThrows(o)
               THEN /\ transferResult' = Rejection
                    /\ UNCHANGED transferError
               ELSE LET error == mapErrorToMessage(o, DefaultTransferError(xfer.tokenType))
                    IN  /\ transferError' = error
                        /\ transferResult' = Failure(error)
            /\ UNCHANGED <<transactionSignature, transactions, nextSig,
                           showPreview, recipientAddress, amount, tokenType,
                           validation>>
    /\ isProcessing' = FinallyIsProcessing(o # "signed" /\ MapErrorToMessageThrows(o))
    /\ xfer' = IdleXfer

(***************************************************************************)
(* connection.ts: getTransactionDetails, one RPC call at a time            *)
(***************************************************************************)
\* Signature sig has landed on the chain.
Landed(sig) == \E i \in DOMAIN chainSigs : chainSigs[i] = sig

\* The call under way: where it stands, whether confirmTransaction threw,
\* whether getSignatureStatuses was asked, and what the call returned
\* (<<>> for null, <<tx>> for a transaction).
IdleDetail ==
    [pc |-> "idle", signature |-> 0, waitFailed |-> FALSE,
     statusChecked |-> FALSE, result |-> <<>>]

\* confirmTransaction resolves, or throws an Error with one of these
\* messages.
ConfirmOutcomes ==
    {"ok",
     "Signature has expired: block height exceeded.",
     "Transaction was not confirmed in 30.00 seconds",
     "NetworkError when attempting to fetch resource"}

\* getSignatureStatuses throws, or answers with value[0] null, with 0
\* confirmations, with some confirmations, or with confirmations null
\* (a rooted transaction).
StatusOutcomes == {"throw", "null", "unconfirmed", "confirmed", "finalized"}

\* The catch-all of getTransactionDetails: log, return null.
DetailReturnsNull(d) == [d EXCEPT !.pc = "done", !.result = <<>>]

GetTransactionDetailsStart(sig) ==
    /\ detail.pc \in {"idle", "done"}
    /\ detail' = [IdleDetail EXCEPT !.pc = "blockhash", !.signature = sig]
    /\ UNCHANGED wait

GetLatestBlockhashReturn(threw) ==
    /\ detail.pc = "blockhash"
    /\ detail' = IF threw THEN DetailReturnsNull(detail)
                 ELSE [detail EXCEPT !.pc = "confirming"]
    /\ UNCHANGED wait

\* confirmTransaction settles.  A throw whose message mentions the block
\* height goes on to getSignatureStatuses; any other throw is rethrown to
\* the outer catch.
ConfirmTransactionReturn(o) ==
    /\ detail.pc = "confirming"
    /\ o = "ok" => Landed(detail.signature)
    /\ detail' =
          IF o = "ok" THEN [detail EXCEPT !.pc = "fetching"]
          ELSE IF MessageIncludes(o, "block height exceeded")
          THEN [detail EXCEPT !.pc = "status", !.waitFailed = TRUE]
          ELSE DetailReturnsNull([detail EXCEPT !.waitFailed = TRUE])
    /\ UNCHANGED wait

\* getSignatureStatuses settles: no status or 0 confirmations throws.
GetSignatureStatusesReturn(o) ==
    /\ detail.pc = "status"
    /\ o \in {"confirmed", "finalized"} => Landed(detail.signature)
    /\ detail' =
          IF o \in {"throw", "null", "unconfirmed"}
          THEN DetailReturnsNull([detail EXCEPT !.statusChecked = TRUE])
          ELSE [detail EXCEPT !.pc = "fetching", !.statusChecked = TRUE]
    /\ UNCHANGED wait

\* getTransaction settles; its answer (a transaction or null) is returned.
GetTransactionReturn(o) ==
    /\ detail.pc = "fetching"
    /\ o = "found" => Landed(detail.signature)
    /\ detail' = [detail EXCEPT !.pc = "done",
                                !.result = getTransactionDetails(detail.signature, o)]
    /\ UNCHANGED wait

(***************************************************************************)
(* connection.ts: isTransactionConfirmed, waitForTransactionConfirmation   *)
(***************************************************************************)
DefaultTimeoutMs == 60000
PollIntervalMs == 2000

\* The timeouts callers pass, and the time one status query takes, in ms.
WaitTimeouts == {0, 5000, DefaultTimeoutMs}
RpcLatencies == {0, 1000}

\* getSignatureStatus throws, answers null, or answers with this
\* confirmationStatus.
SignatureStatusOutcomes == {"throw", "null", "processed", "confirmed", "finalized"}

\* A status query that counts every known signature as confirmed.
isTransactionConfirmed_AnyStatus(o) == o \notin {"throw", "null"}

\* isTransactionConfirmed: true for confirmed and finalized, false for
\* anything else and for a throwing query.
isTransactionConfirmed(o) == o \in {"confirmed", "finalized"}

\* The call under way: elapsed is Date.now() - startTime, lastPoll the
\* answer the last status query met, result what the call returned.
IdleWait ==
    [pc |-> "idle", signature |-> 0, timeoutMs |-> 0, elapsed |-> 0,
     lastPoll |-> "none", result |-> FALSE]

\* The head of the while loop at the given elapsed time: go on to the next
\* status query, or return false.
WaitLoopHead(w, elapsed) ==
    IF elapsed < w.timeoutMs
    THEN [w EXCEPT !.pc = "polling", !.elapsed = elapsed]
    ELSE [w EXCEPT !.pc = "done", !.elapsed = elapsed, !.result = FALSE]

WaitForTransactionConfirmationStart(sig, timeoutMs) ==
    /\ wait.pc \in {"idle", "done"}
    /\ wait' = WaitLoopHead([IdleWait EXCEPT !.signature = sig,
                                              !.timeoutMs = timeoutMs], 0)
    /\ UNCHANGED detail

\* The status query of one round settles after latency ms.
IsTransactionConfirmedReturn(o, latency) ==
    /\ wait.pc = "polling"
    /\ o \in {"processed", "confirmed", "finalized"} => Landed(wait.signature)
    /\ wait' =
          IF isTransactionConfirmed(o)
          THEN [wait EXCEPT !.pc = "done", !.elapsed = @ + latency,
                            !.lastPoll = o, !.result = TRUE]
          ELSE [wait EXCEPT !.pc = "sleeping", !.elapsed = @ + latency,
                            !.lastPoll = o]
    /\ UNCHANGED detail

\* The timer between two rounds fires.
WaitIntervalElapsed ==
    /\ wait.pc = "sleeping"
    /\ wait' = WaitLoopHead(wait, wait.elapsed + PollIntervalMs)
    /\ UNCHANGED detail

(***************************************************************************)
(* Session: LazorkitContext, useLazorkit, PasskeyLogin, DashboardLayout    *)
(***************************************************************************)
\* The components that call useLazorkit() and so hold an operationError.
AuthComponents == {"PasskeyLogin", "DashboardLayout"}

\* sdkConnect resolves, or rejects with an Error of one of these messages.
SdkConnectOutcomes ==
    {"ok", "WalletWindowClosedError",
     "NetworkError when attempting to fetch resource", "No wallet session"}

\* sdkDisconnect resolves, or rejects with an Error of one of these.
SdkDisconnectOutcomes ==
    {"ok", "NetworkError when attempting to fetch resource", "Storage unavailable"}

IdleAuthCall == [pc |-> "idle", last |-> "none", returned |-> FALSE]

\* useLazorkit().error as component c sees it.
ExposedError(c) ==
    IF operationError[c] # Null THEN operationError[c] ELSE contextError

LogoutToast == "Logged out successfully"

\* The landing page mounts: PasskeyLogin and its hook start afresh.
MountLanding(opError) ==
    /\ route' = "/"
    /\ operationError' = [opError EXCEPT !["PasskeyLogin"] = Null]
    /\ hasAttemptedAuto' = FALSE

\* LazorkitContext.handleConnect up to the await of sdkConnect, entered
\* from useLazorkit's connect or reconnect (both clear operationError).
BeginConnect(kind) ==
    /\ route = "/"
    /\ ~isConnected
    /\ authCall.pc = "idle"
    /\ operationError' = [operationError EXCEPT !["PasskeyLogin"] = Null]
    /\ isConnecting' = TRUE
    /\ contextError' = Null
    /\ authCall' = [IdleAuthCall EXCEPT !.pc = kind]

\* The timer of PasskeyLogin's auto-connect effect fires.
HandleAutoConnect ==
    /\ ~hasAttemptedAuto
    /\ BeginConnect("reconnect")
    /\ hasAttemptedAuto' = TRUE
    /\ UNCHANGED <<isConnected, toasts, route>>

\* The login button of PasskeyLogin.
HandleConnect ==
    /\ ~isConnecting
    /\ BeginConnect("connect")
    /\ UNCHANGED <<isConnected, hasAttemptedAuto, toasts, route>>

\* sdkConnect settles.  handleConnect of the context stores the error and
\* rethrows; connect maps it into operationError, reconnect swallows it;
\* a true result makes the page go to the dashboard.
SdkConnectReturn(o) ==
    /\ authCall.pc \in {"connect", "reconnect"}
    /\ isConnecting' = FALSE
    /\ authCall' = [pc |-> "idle", last |-> authCall.pc, returned |-> o = "ok"]
    /\ IF o = "ok"
       THEN /\ isConnected' = TRUE
            /\ route' = "/dashboard"
            /\ UNCHANGED <<contextError, operationError>>
       ELSE /\ contextError' = o
            /\ operationError' =
                  IF authCall.pc = "connect"
                  THEN [operationError EXCEPT !["PasskeyLogin"] =
                          mapErrorToMessage(o, "Failed to connect wallet. Please try again.")]
                  ELSE operationError
            /\ UNCHANGED <<isConnected, route>>
    /\ UNCHANGED <<hasAttemptedAuto, toasts>>

\* The effect of the landing page: a connected session goes to the dashboard.
LandingRedirect ==
    /\ route = "/"
    /\ isConnected
    /\ route' = "/dashboard"
    /\ UNCHANGED <<isConnected, isConnecting, contextError, operationError,
                   hasAttemptedAuto, authCall, toasts>>

\* The notification is dismissed or times out.
ToastGone ==
    /\ toasts # {}
    /\ toasts' = {}
    /\ UNCHANGED <<isConnected, isConnecting, contextError, operationError,
                   hasAttemptedAuto, authCall, route>>

\* The logout button: handleLogout -> disconnect -> handleDisconnect, up
\* to the await of sdkDisconnect.
HandleLogout ==
    /\ route = "/dashboard"
    /\ isConnected
    /\ authCall.pc = "idle"
    /\ operationError' = [operationError EXCEPT !["DashboardLayout"] = Null]
    /\ contextError' = Null
    /\ authCall' = [IdleAuthCall EXCEPT !.pc = "disconnect"]
    /\ UNCHANGED <<isConnected, isConnecting, hasAttemptedAuto, toasts, route>>

\* sdkDisconnect settles; disconnect returns true or false, and
\* handleLogout goes on with the notification and the redirect.
SdkDisconnectReturn(o) ==
    /\ authCall.pc = "disconnect"
    /\ authCall' = [pc |-> "idle", last |-> "disconnect", returned |-> o = "ok"]
    /\ IF o = "ok"
       THEN /\ isConnected' = FALSE
            /\ UNCHANGED contextError
            /\ MountLanding(operationError)
       ELSE /\ contextError' = o
            /\ UNCHANGED isConnected
            /\ MountLanding([operationError EXCEPT !["DashboardLayout"] =
                  mapErrorToMessage(o,
                     "Failed to disconnect wallet. Please refresh and try again.")])
    /\ toasts' = toasts \cup {LogoutToast}
    /\ UNCHANGED isConnecting

(***************************************************************************)
(* Initial state: the providers have just mounted                          *)
(***************************************************************************)
\* The state of the providers and of the form after mounting.
ProgramInit ==
    /\ solBalance = 0
    /\ usdcBalance = 0
    /\ isLoadingBalances = FALSE
    /\ balanceError = Null
    /\ transactions = <<>>
    /\ isLoadingTransactions = FALSE
    /\ balCalls = [c \in BalCallIds |-> IdleBalCall]
    /\ balLatest = 0
    /\ histCalls = [h \in HistCallIds |-> IdleHistCall]
    /\ tokenType = "SOL"
    /\ recipientAddress = ""
    /\ amount = ""
    /\ showPreview = FALSE
    /\ validation = ValidationOf("SOL", "", "", 0, 0)
    /\ isProcessing = FALSE
    /\ transferError = Null
    /\ transactionSignature = 0
    /\ xfer = IdleXfer
    /\ transferResult = NoResult
    /\ nextSig = 1
    /\ detail = IdleDetail
    /\ wait = IdleWait
    /\ isConnected = FALSE
    /\ isConnecting = FALSE
    /\ contextError = Null
    /\ operationError = [c \in AuthComponents |-> Null]
    /\ hasAttemptedAuto = FALSE
    /\ authCall = IdleAuthCall
    /\ toasts = {}
    /\ route = "/"
    /\ validateCall = NoValidateCall

\* A fresh account: nothing has landed on the chain yet.
Init ==
    /\ chainSol \in SolVals
    /\ chainUsdc \in UsdcVals
    /\ chainSigs = <<>>
    /\ chainTxs = <<>>
    /\ ProgramInit

(***************************************************************************)
(* Balance synchroniser on its own: overlapping refreshes against a        *)
(* changing chain.                                                         *)
(***************************************************************************)
BalNext ==
    \/ \E c \in BalCallIds : RefreshBalancesStart(c) /\ UNCHANGED <<chainVars, histVars, formVars, xferVars, confVars, authVars, pureVars>>
    \/ \E c \in BalCallIds, o \in NativeRpcOutcomes :
          GetSolBalanceReturn(c, o) /\ UNCHANGED <<chainVars, histVars, formVars, xferVars, confVars, authVars, pureVars>>
    \/ \E c \in BalCallIds : BalanceDelayElapsed(c) /\ UNCHANGED <<chainVars, histVars, formVars, xferVars, confVars, authVars, pureVars>>
    \/ \E c \in BalCallIds, o \in TokenRpcOutcomes :
          GetUsdcBalanceReturn(c, o) /\ UNCHANGED <<chainVars, histVars, formInputs, xferVars, confVars, authVars, pureVars>>
    \/ \E v \in SolVals : ChainSolChange(v) /\ UNCHANGED <<balVars, histVars, formVars, xferVars, confVars, authVars, pureVars>>
    \/ \E v \in UsdcVals : ChainUsdcChange(v) /\ UNCHANGED <<balVars, histVars, formVars, xferVars, confVars, authVars, pureVars>>

SpecBal == Init /\ [][BalNext]_vars

(***************************************************************************)
(* History synchroniser on its own: one refresh at a time against a chain  *)
(* on which transactions keep landing.                                     *)
(***************************************************************************)
HistSoloIds == {1}

HistNext ==
    \/ \E h \in HistSoloIds : RefreshTransactionHistoryStart(h)
          /\ UNCHANGED <<chainVars, balVars, formVars, xferVars, confVars, authVars, pureVars>>
    \/ \E h \in HistSoloIds, threw \in BOOLEAN : GetRecentTransactionsReturn(h, threw)
          /\ UNCHANGED <<chainVars, balVars, formVars, xferVars, confVars, authVars, pureVars>>
    \/ \E h \in HistSoloIds, k \in 1..MAX_TRANSACTION_HISTORY, o \in DetailRpcOutcomes :
          GetTransactionDetailsReturn(h, k, o)
          /\ UNCHANGED <<chainVars, balVars, formVars, xferVars, confVars, authVars, pureVars>>
    \/ \E h \in HistSoloIds : BatchPauseElapsed(h)
          /\ UNCHANGED <<chainVars, balVars, formVars, xferVars, confVars, authVars, pureVars>>
    \/ ChainLand /\ UNCHANGED <<balVars, histVars, formVars, xferVars, confVars, authVars, pureVars>>

HistInit == Init /\ chainSol = 0 /\ chainUsdc = 0

SpecHist == HistInit /\ [][HistNext]_vars

\* The transfer form and useTransfer, with one balance refresh (the 5 s
\* interval of useWallet) running beside them.
XferBalIds == {1}
NativeRpcOk == [threw |-> FALSE, isError |-> FALSE, message |-> Null]
TokenRpcOk == [stage |-> "ok", message |-> Null]
XferSignOutcomes == {"signed", "User rejected the request"}
XferRecipients == {EmptyAddr, NotBase58Addr, SelfAddr, OtherAddr}
XferAmounts == {"", "0.5", "1.5"}
histRest == <<isLoadingTransactions, histCalls>>

XferNext ==
    \/ \E t \in {"SOL", "USDC"} :
          SetTokenType(t) /\ UNCHANGED <<chainVars, balVars, histVars, xferVars, confVars, authVars, pureVars>>
    \/ \E a \in XferRecipients :
          SetRecipientAddress(a) /\ UNCHANGED <<chainVars, balVars, histVars, xferVars, confVars, authVars, pureVars>>
    \/ \E str \in XferAmounts :
          SetAmount(str) /\ UNCHANGED <<chainVars, balVars, histVars, xferVars, confVars, authVars, pureVars>>
    \/ HandleSubmit /\ UNCHANGED <<chainVars, balVars, histVars, xferVars, confVars, authVars, pureVars>>
    \/ ClosePreview /\ UNCHANGED <<chainVars, balVars, histVars, xferVars, confVars, authVars, pureVars>>
    \/ HandleConfirmTransfer /\ UNCHANGED <<chainVars, balVars, histRest, confVars, authVars, pureVars>>
    \/ \E threw \in BOOLEAN :
          ResolveAtaReturn(threw) /\ UNCHANGED <<chainVars, balVars, histRest, confVars, authVars, pureVars>>
    \/ \E o \in XferSignOutcomes :
          SignAndSendReturn(o) /\ UNCHANGED <<chainVars, balVars, histRest, confVars, authVars, pureVars>>
    \/ \E c \in XferBalIds :
          RefreshBalancesStart(c) /\ UNCHANGED <<chainVars, histVars, formVars, xferVars, confVars, authVars, pureVars>>
    \/ \E c \in XferBalIds :
          GetSolBalanceReturn(c, NativeRpcOk)
          /\ UNCHANGED <<chainVars, histVars, formVars, xferVars, confVars, authVars, pureVars>>
    \/ \E c \in XferBalIds :
          BalanceDelayElapsed(c) /\ UNCHANGED <<chainVars, histVars, formVars, xferVars, confVars, authVars, pureVars>>
    \/ \E c \in XferBalIds :
          GetUsdcBalanceReturn(c, TokenRpcOk)
          /\ UNCHANGED <<chainVars, histVars, formInputs, xferVars, confVars, authVars, pureVars>>
    \/ \E v \in SolVals : ChainSolChange(v) /\ UNCHANGED <<balVars, histVars, formVars, xferVars, confVars, authVars, pureVars>>

XferInit == Init /\ chainUsdc = MaxBalSteps * UsdcUnitsPerToken

SpecXfer == XferInit /\ [][XferNext]_vars

(***************************************************************************)
(* Life of a transfer: submitted by the wallet SDK, recorded               *)
(* speculatively, landing on the chain, found again by a history refresh.  *)
(***************************************************************************)
\* The instruction list of the request in flight, as the chain shows it
\* once parsed: SystemProgram.transfer, or createTransferInstruction
\* between the two associated token accounts.
SentInstructions(x) ==
    IF x.tokenType = "SOL"
    THEN <<SysTransfer(SelfAddr, x.recipientAddress, solToLamports(x.amount))>>
    ELSE <<[program |-> "spl-token", type |-> "transfer", source |-> SelfAta,
            destination |-> OtherAta, amount |-> tokenToUsdc(x.amount)]>>

\* Inside signAndSendTransaction: the signed transaction is handed to the
\* cluster.  The promise of the caller is still pending.
SdkSubmit ==
    /\ xfer.pc = "awaitingSignature"
    /\ nextSig <= MaxTransfers
    /\ Len(chainTxs) < nextSig
    /\ chainTxs' = Append(chainTxs, SentInstructions(xfer))
    /\ UNCHANGED <<chainSol, chainUsdc, chainSigs>>

Range(seq) == {seq[k] : k \in DOMAIN seq}

\* A submitted transaction lands: its signature becomes the newest of the
\* account.
ChainLandSent(n) ==
    /\ n \in DOMAIN chainTxs
    /\ SdkSignature(n) \notin Range(chainSigs)
    /\ chainSigs' = <<SdkSignature(n)>> \o chainSigs
    /\ UNCHANGED <<chainSol, chainUsdc, chainTxs>>

\* The account has a past: MAX_TRANSACTION_HISTORY - 1 signatures of other
\* origin, newest first.
EarlierSigs ==
    [k \in 1..(MAX_TRANSACTION_HISTORY - 1) |-> MAX_TRANSACTION_HISTORY - k]

LifeHistIds == {1}
LifeBalIds == {1}
LifeRecipient == OtherAddr
LifeAmount == "0.5"

LifeNext ==
    \/ SetRecipientAddress(LifeRecipient)
          /\ UNCHANGED <<chainVars, balVars, histVars, xferVars, confVars, authVars, pureVars>>
    \/ SetAmount(LifeAmount) /\ UNCHANGED <<chainVars, balVars, histVars, xferVars, confVars, authVars, pureVars>>
    \/ HandleSubmit /\ UNCHANGED <<chainVars, balVars, histVars, xferVars, confVars, authVars, pureVars>>
    \/ HandleConfirmTransfer /\ UNCHANGED <<chainVars, balVars, histRest, confVars, authVars, pureVars>>
    \/ SdkSubmit /\ UNCHANGED <<balVars, histVars, formVars, xferVars, confVars, authVars, pureVars>>
    \/ /\ Len(chainTxs) = nextSig
       /\ SignAndSendReturn("signed")
       /\ UNCHANGED <<chainVars, balVars, histRest, confVars, authVars, pureVars>>
    \/ /\ Len(chainTxs) < nextSig
       /\ SignAndSendReturn("User rejected the request")
       /\ UNCHANGED <<chainVars, balVars, histRest, confVars, authVars, pureVars>>
    \/ \E n \in 1..MaxTransfers :
          ChainLandSent(n) /\ UNCHANGED <<balVars, histVars, formVars, xferVars, confVars, authVars, pureVars>>
    \/ \E c \in LifeBalIds :
          RefreshBalancesStart(c) /\ UNCHANGED <<chainVars, histVars, formVars, xferVars, confVars, authVars, pureVars>>
    \/ \E c \in LifeBalIds :
          GetSolBalanceReturn(c, NativeRpcOk)
          /\ UNCHANGED <<chainVars, histVars, formVars, xferVars, confVars, authVars, pureVars>>
    \/ \E c \in LifeBalIds :
          BalanceDelayElapsed(c) /\ UNCHANGED <<chainVars, histVars, formVars, xferVars, confVars, authVars, pureVars>>
    \/ \E c \in LifeBalIds :
          GetUsdcBalanceReturn(c, TokenRpcOk)
          /\ UNCHANGED <<chainVars, histVars, formInputs, xferVars, confVars, authVars, pureVars>>
    \/ \E h \in LifeHistIds :
          RefreshTransactionHistoryStart(h)
          /\ UNCHANGED <<chainVars, balVars, formVars, xferVars, confVars, authVars, pureVars>>
    \/ \E h \in LifeHistIds :
          GetRecentTransactionsReturn(h, FALSE)
          /\ UNCHANGED <<chainVars, balVars, formVars, xferVars, confVars, authVars, pureVars>>
    \/ \E h \in LifeHistIds : \E k \in DOMAIN histCalls[h].sigs :
          GetTransactionDetailsReturn(h, k, "found")
          /\ UNCHANGED <<chainVars, balVars, formVars, xferVars, confVars, authVars, pureVars>>
    \/ \E h \in LifeHistIds :
          BatchPauseElapsed(h) /\ UNCHANGED <<chainVars, balVars, formVars, xferVars, confVars, authVars, pureVars>>

LifeInit ==
    /\ chainSol = MaxBalSteps * LAMPORTS_PER_SOL
    /\ chainUsdc = 0
    /\ chainSigs \in {<<>>, EarlierSigs}
    /\ chainTxs = <<>>
    /\ ProgramInit

SpecLife == LifeInit /\ [][LifeNext]_vars

(***************************************************************************)
(* Two refreshes in a row against a chain that stands still                *)
(***************************************************************************)
\* The signatures of the account, newest first.
StillSigs == <<3, 2, 1>>

StillTokenOutcomes ==
    {o \in TokenRpcOutcomes : o.stage = "ok" \/ o.message = "429 Too Many Requests"}

\* Invocation 1 runs first; invocation 2 is issued once invocation 1 has
\* settled.
InARow(calls, c) ==
    /\ calls[c].pc = "idle" /\ calls[c].outcome = "none"
    /\ c = 2 => calls[1].pc = "idle" /\ calls[1].outcome # "none"

StillNext ==
    \/ \E c \in BalCallIds :
          /\ InARow(balCalls, c)
          /\ RefreshBalancesStart(c)
          /\ UNCHANGED <<chainVars, histVars, formVars, xferVars, confVars, authVars, pureVars>>
    \/ \E c \in BalCallIds, o \in NativeRpcOutcomes :
          GetSolBalanceReturn(c, o) /\ UNCHANGED <<chainVars, histVars, formVars, xferVars, confVars, authVars, pureVars>>
    \/ \E c \in BalCallIds :
          BalanceDelayElapsed(c) /\ UNCHANGED <<chainVars, histVars, formVars, xferVars, confVars, authVars, pureVars>>
    \/ \E c \in BalCallIds, o \in StillTokenOutcomes :
          GetUsdcBalanceReturn(c, o) /\ UNCHANGED <<chainVars, histVars, formInputs, xferVars, confVars, authVars, pureVars>>
    \/ \E h \in HistCallIds :
          /\ InARow(histCalls, h)
          /\ RefreshTransactionHistoryStart(h)
          /\ UNCHANGED <<chainVars, balVars, formVars, xferVars, confVars, authVars, pureVars>>
    \/ \E h \in HistCallIds, threw \in BOOLEAN :
          GetRecentTransactionsReturn(h, threw)
          /\ UNCHANGED <<chainVars, balVars, formVars, xferVars, confVars, authVars, pureVars>>
    \/ \E h \in HistCallIds, k \in DOMAIN StillSigs, o \in DetailRpcOutcomes :
          GetTransactionDetailsReturn(h, k, o)
          /\ UNCHANGED <<chainVars, balVars, formVars, xferVars, confVars, authVars, pureVars>>

StillInit ==
    /\ chainSol \in SolVals
    /\ chainUsdc \in UsdcVals
    /\ chainSigs \in {<<>>, StillSigs}
    /\ chainTxs = <<>>
    /\ ProgramInit

SpecStill == StillInit /\ [][StillNext]_vars

(***************************************************************************)
(* parseTransactionDetails on arbitrary instruction lists: the account has *)
(* one transaction, and a history refresh fetches and parses it.           *)
(***************************************************************************)
MaxInstr == 2          \* instructions per transaction

ThirdAta == "ThirdTokenAccount333333333333333333"

\* Instruction shapes: native transfers between the three wallets, token
\* transfers between their token accounts, and an unrelated instruction.
\* The instruction at position i moves ParseUnit * i.
ParseUnit == 1000
Wallets == {SelfAddr, OtherAddr, ThirdAddr}
TokenAccounts == {SelfAta, OtherAta, ThirdAta}
InstructionShapes ==
    {SysTransfer(a, b, 0) : a \in Wallets, b \in Wallets \ {SelfAddr}}
    \cup {SysTransfer(a, SelfAddr, 0) : a \in Wallets \ {SelfAddr}}
    \cup {[TokenTransfer(p[1], p[2], 0) EXCEPT !.type = t] :
              p \in {q \in {SelfAta, OtherAta} \X TokenAccounts : q[1] # q[2]},
              t \in {"transfer", "transferChecked"}}
    \cup {OtherInstruction}

ParseInputs ==
    UNION { { [i \in 1..n |-> [shapes[i] EXCEPT !.amount = ParseUnit * i]] :
                shapes \in [1..n -> InstructionShapes] } : n \in 1..MaxInstr }

ParseSig == SdkSignature(1)

ParseNext ==
    \/ RefreshTransactionHistoryStart(1)
          /\ UNCHANGED <<chainVars, balVars, formVars, xferVars, confVars, authVars, pureVars>>
    \/ GetRecentTransactionsReturn(1, FALSE)
          /\ UNCHANGED <<chainVars, balVars, formVars, xferVars, confVars, authVars, pureVars>>
    \/ GetTransactionDetailsReturn(1, 1, "found")
          /\ UNCHANGED <<chainVars, balVars, formVars, xferVars, confVars, authVars, pureVars>>

ParseInit ==
    /\ chainSol = 0
    /\ chainUsdc = 0
    /\ chainSigs = <<ParseSig>>
    /\ chainTxs \in {<<tx>> : tx \in ParseInputs}
    /\ ProgramInit

SpecParse == ParseInit /\ [][ParseNext]_vars

(***************************************************************************)
(* getTransactionDetails calls against a chain on which transactions land  *)
(***************************************************************************)
DetailNext ==
    \/ \E sig \in 1..MaxSigs : GetTransactionDetailsStart(sig)
          /\ UNCHANGED <<chainVars, balVars, histVars, formVars, xferVars, authVars, pureVars>>
    \/ \E threw \in BOOLEAN : GetLatestBlockhashReturn(threw)
          /\ UNCHANGED <<chainVars, balVars, histVars, formVars, xferVars, authVars, pureVars>>
    \/ \E o \in ConfirmOutcomes : ConfirmTransactionReturn(o)
          /\ UNCHANGED <<chainVars, balVars, histVars, formVars, xferVars, authVars, pureVars>>
    \/ \E o \in StatusOutcomes : GetSignatureStatusesReturn(o)
          /\ UNCHANGED <<chainVars, balVars, histVars, formVars, xferVars, authVars, pureVars>>
    \/ \E o \in DetailRpcOutcomes : GetTransactionReturn(o)
          /\ UNCHANGED <<chainVars, balVars, histVars, formVars, xferVars, authVars, pureVars>>
    \/ ChainLand /\ UNCHANGED <<balVars, histVars, formVars, xferVars, confVars, authVars, pureVars>>

SpecDetail == Init /\ [][DetailNext]_vars

(***************************************************************************)
(* Session: login, automatic reconnect, logout                             *)
(***************************************************************************)
AuthRest == <<chainVars, balVars, histVars, formVars, xferVars, confVars, pureVars>>

AuthNext ==
    \/ HandleAutoConnect /\ UNCHANGED AuthRest
    \/ HandleConnect /\ UNCHANGED AuthRest
    \/ \E o \in SdkConnectOutcomes : SdkConnectReturn(o) /\ UNCHANGED AuthRest
    \/ LandingRedirect /\ UNCHANGED AuthRest
    \/ ToastGone /\ UNCHANGED AuthRest
    \/ HandleLogout /\ UNCHANGED AuthRest
    \/ \E o \in SdkDisconnectOutcomes : SdkDisconnectReturn(o) /\ UNCHANGED AuthRest

SpecAuth == Init /\ [][AuthNext]_vars

(***************************************************************************)
(* waitForTransactionConfirmation calls against a chain on which           *)
(* transactions land; timers fire and status queries settle.               *)
(***************************************************************************)
WaitPoll ==
    \E o \in SignatureStatusOutcomes, latency \in RpcLatencies :
       IsTransactionConfirmedReturn(o, latency)
       /\ UNCHANGED <<chainVars, balVars, histVars, formVars, xferVars, authVars, pureVars>>

WaitSleep ==
    WaitIntervalElapsed
    /\ UNCHANGED <<chainVars, balVars, histVars, formVars, xferVars, authVars, pureVars>>

WaitNext ==
    \/ \E sig \in 1..MaxSigs, timeoutMs \in WaitTimeouts :
          WaitForTransactionConfirmationStart(sig, timeoutMs)
          /\ UNCHANGED <<chainVars, balVars, histVars, formVars, xferVars, authVars, pureVars>>
    \/ WaitPoll
    \/ WaitSleep
    \/ ChainLand /\ UNCHANGED <<balVars, histVars, formVars, xferVars, confVars, authVars, pureVars>>

SpecWait == Init /\ [][WaitNext]_vars /\ WF_vars(WaitPoll) /\ WF_vars(WaitSleep)

(***************************************************************************)
(* The validation functions on arbitrary arguments                         *)
(***************************************************************************)
ValidRecipients == {EmptyAddr, NotBase58Addr, BadKeyAddr, SelfAddr, OtherAddr}
ValidAmounts == {"", "abc", "-1", "0", "0.5", "0.5000000", "0.5000000000", "1.5"}

ValidNext ==
    \E token \in {"SOL", "USDC"}, recipient \in ValidRecipients,
       str \in ValidAmounts, k \in 0..MaxBalSteps :
       /\ ValidateTransferCall(token, recipient, str, k * UnitsPerToken(token))
       /\ UNCHANGED <<chainVars, balVars, histVars, formVars, xferVars, confVars, authVars>>

SpecValid == Init /\ [][ValidNext]_vars

(***************************************************************************)
(* Claims about the balance synchroniser (checked under SpecBal)           *)
(***************************************************************************)
\* The step in which invocation c of refreshBalances publishes.
BalPublishStep(c) == balCalls[c].pc = "getUsdc" /\ balCalls'[c].pc = "idle"
\* The step in which invocation c of refreshBalances ends on a native error.
BalNativeFailStep(c) == balCalls[c].pc = "getSol" /\ balCalls'[c].pc = "idle"

\* C1: when the token query throws and the native query succeeded,
\* refreshBalances surfaces no balance error and publishes the freshly
\* fetched native amount together with the token amount published before.
C1_TokenFailureKeepsPreviousToken ==
    [][\A c \in BalCallIds :
          (BalPublishStep(c) /\ balCalls'[c].usdcThrew)
             => /\ balanceError' = balanceError
                /\ solBalance' = balCalls[c].sol
                /\ usdcBalance' = usdcBalance]_vars

\* C2: whenever the native query errors, whatever the error, refreshBalances
\* ends with a non-null balanceError and leaves both published amounts as
\* they were.
C2_NativeFailureSurfacesError ==
    [][\A c \in BalCallIds :
          BalNativeFailStep(c)
             => /\ balanceError' # Null
                /\ solBalance' = solBalance
                /\ usdcBalance' = usdcBalance]_vars

\* C3: once no refreshBalances is in flight, and the invocation that
\* started last succeeded, the published balances are the ones that
\* invocation fetched (stated for invocations whose token query did not
\* throw, so that only the order of the responses is at stake).
C3_LatestStartedCallWins ==
    (/\ balLatest \in BalCallIds
     /\ \A c \in BalCallIds : balCalls[c].pc = "idle"
     /\ balCalls[balLatest].outcome = "ok"
     /\ \A c \in BalCallIds : ~balCalls[c].usdcThrew)
        => /\ solBalance = balCalls[balLatest].sol
           /\ usdcBalance = balCalls[balLatest].usdc

(***************************************************************************)
(* Claims about the history synchroniser (checked under SpecHist)          *)
(***************************************************************************)
\* The step in which invocation h receives the signature list.
HistSignaturesStep(h) == histCalls[h].pc = "getSigs" /\ histCalls'[h].pc # "getSigs"
\* The step in which invocation h publishes the resolved batches.
HistPublishStep(h) == histCalls[h].pc = "batch" /\ histCalls'[h].pc = "idle"

\* C4: when refreshTransactionHistory receives zero signatures it publishes
\* an empty list and finishes without having issued any detail fetch.
C4_NoSignaturesPublishesEmpty ==
    [][\A h \in HistCallIds :
          (HistSignaturesStep(h) /\ (chainSigs = <<>> \/ histCalls'[h].sigs = <<>>))
             => /\ transactions' = <<>>
                /\ histCalls'[h].pc = "idle"
                /\ histCalls'[h].inflight = {}
                /\ histCalls'[h].fetches = 0]_vars

\* A refresh received zero signatures while a non-empty list was published.
C4_Witness ==
    \E h \in HistCallIds :
        /\ histCalls[h].outcome = "empty"
        /\ histCalls[h].replaced # <<>>
        /\ histCalls[h].fetches = 0
        /\ transactions = <<>>

\* C5: at most BATCH_SIZE detail fetches of one refresh are in flight, and
\* all of them belong to the same batch: the next batch starts only when
\* every fetch of the current one has settled.
C5_AtMostBatchSizeInFlight ==
    \A h \in HistCallIds :
        /\ Cardinality(histCalls[h].inflight) <= BATCH_SIZE
        /\ \A j, k \in histCalls[h].inflight :
              (j - 1) \div BATCH_SIZE = (k - 1) \div BATCH_SIZE
        /\ \A k \in histCalls[h].inflight : k > Len(histCalls[h].txDetailsArray)

\* The second batch of a refresh over more than BATCH_SIZE signatures is in
\* flight.
C5_Witness ==
    \E h \in HistCallIds :
        /\ Len(histCalls[h].sigs) > BATCH_SIZE
        /\ Len(histCalls[h].txDetailsArray) = BATCH_SIZE
        /\ histCalls[h].inflight # {}

\* C6: a signature whose detail fetch throws or finds nothing is published
\* as a placeholder with status pending that carries only the signature and
\* the generic description; every other signature, in the same and in later
\* batches, is fetched and published as a resolved record.
C6_FailedFetchBecomesPlaceholder ==
    [][\A h \in HistCallIds :
          HistPublishStep(h) =>
             LET call == histCalls'[h] IN
             /\ Len(transactions') = Len(call.sigs)
             /\ call.fetches = Len(call.sigs)
             /\ \A k \in 1..Len(call.sigs) :
                   /\ transactions'[k].signature = call.sigs[k]
                   /\ IF call.outcomes[k] = "found"
                      THEN transactions'[k].status = "confirmed"
                      ELSE /\ transactions'[k].status = "pending"
                           /\ transactions'[k].amount = 0
                           /\ transactions'[k].recipientAddress = ""
                           /\ transactions'[k].type = "other"
                           /\ transactions'[k].description.text = "Pending transaction"]_vars

\* A published refresh over two batches whose first fetch failed while its
\* neighbour and the last signature of the second batch resolved.
C6_Witness ==
    \E h \in HistCallIds :
        /\ histCalls[h].outcome = "published"
        /\ Len(histCalls[h].sigs) > BATCH_SIZE
        /\ histCalls[h].outcomes[1] = "missing"
        /\ histCalls[h].outcomes[2] = "found"
        /\ histCalls[h].outcomes[Len(histCalls[h].sigs)] = "found"
        /\ transactions[1].status = "pending"
        /\ transactions[Len(transactions)].status = "confirmed"

\* C7: the list a completed refresh publishes has exactly one record per
\* fetched signature, in the order the signatures were returned, whatever
\* the order in which the fetches settled, and nothing of the previous list
\* is kept.
C7_PublishedInSignatureOrder ==
    [][\A h \in HistCallIds :
          HistPublishStep(h) =>
             /\ SignaturesOf(transactions') = histCalls'[h].sigs
             /\ histCalls'[h].sigs = SubSeq(chainSigs, Len(chainSigs) - Len(histCalls'[h].sigs) + 1, Len(chainSigs))]_vars

\* A refresh over two batches has replaced a different, non-empty list.
C7_Witness ==
    \E h \in HistCallIds :
        /\ histCalls[h].outcome = "published"
        /\ Len(histCalls[h].sigs) > BATCH_SIZE
        /\ histCalls[h].replaced # <<>>
        /\ histCalls[h].replaced # histCalls[h].sigs
        /\ SignaturesOf(transactions) = histCalls[h].sigs

\* C17: when fetching the signature list fails, refreshTransactionHistory
\* publishes an empty list, reports no error, issues no detail fetch and
\* ends with the loading flag cleared.
C17_SignatureFailurePublishesEmpty ==
    [][\A h \in HistCallIds :
          (HistSignaturesStep(h) /\ histCalls'[h].sigsFailed)
             => /\ transactions' = <<>>
                /\ ~isLoadingTransactions'
                /\ balanceError' = balanceError
                /\ histCalls'[h].pc = "idle"
                /\ histCalls'[h].outcome = "empty"
                /\ histCalls'[h].fetches = 0]_vars

\* A refresh of an account with signatures ended without any signature,
\* replacing a published list of MAX_TRANSACTION_HISTORY - 4 records.
C17_Witness ==
    /\ histCalls[1].sigsFailed
    /\ histCalls[1].outcome = "empty"
    /\ Len(histCalls[1].replaced) = MAX_TRANSACTION_HISTORY - 4
    /\ Len(chainSigs) = MAX_TRANSACTION_HISTORY - 4
    /\ transactions = <<>>
    /\ ~isLoadingTransactions

(***************************************************************************)
(* Claims about the transfer form and useTransfer (checked under SpecXfer) *)
(***************************************************************************)
\* The step in which a confirmed request passes the checks of
\* transferSol / transferUsdc and goes on to instruction building and
\* sign-and-send.
XferHandOverStep == xfer.pc = "idle" /\ xfer'.pc # "idle"

\* The step in which signAndSendTransaction resolves with a signature.
XferSignedStep == xfer.pc = "awaitingSignature" /\ transferResult'.success

\* A step in which an attempt ends without a signature (a check failed,
\* the derivation threw, signing failed or was cancelled).
XferFailedStep ==
    /\ xfer'.pc = "idle"
    /\ transferResult' # transferResult \/ xfer.pc # "idle"
    /\ ~transferResult'.success

\* C8: a request whose recipient is the sender's own address is never valid:
\* the validity flag computed by the form is false for it, and no request
\* with that recipient is on its way to sign-and-send.
C8_SelfTransferNeverValid ==
    /\ recipientAddress = SelfAddr => ~validation.isValid
    /\ xfer.pc # "idle" => xfer.recipientAddress # SelfAddr

\* C9: a transfer whose amount exceeds the published balance of the selected
\* token is rejected before anything is built or sent: no request goes on
\* to instruction building and sign-and-send with an amount above the
\* balance, and the validation of such a request carries the
\* insufficient-balance error, which differs from every address error.
C9_OverBalanceRejectedBeforeSigning ==
    [][ /\ XferHandOverStep =>
            ~ExceedsBalance(xfer'.amount,
                            BalanceUnits(xfer'.tokenType, solBalance, usdcBalance),
                            UnitsPerToken(xfer'.tokenType))
        /\ validation'.amountError = "Insufficient balance" =>
            /\ ~validation'.isValid
            /\ validation'.addressError # validation'.amountError
      ]_vars

\* The record a successful submission is required to put at the head of the
\* list, with the given status: the returned signature, the token, the
\* recipient, and minus the requested amount in the smallest unit.
IsSpeculativeHead(rec, status) ==
    /\ rec.signature = transactionSignature'
    /\ rec.signature = transferResult'.signature
    /\ rec.status = status
    /\ rec.tokenType = xfer.tokenType
    /\ rec.recipientAddress = xfer.recipientAddress
    /\ rec.amount < 0
    /\ 0 - rec.amount = xfer.amount * (UnitsPerToken(xfer.tokenType) \div AmountScale)

\* Every step is either a successful submission that prepends exactly one
\* speculative record with the given status, ahead of the previous records
\* (of which at most MAX_TRANSACTION_HISTORY - 1 stay), or leaves the list
\* alone.
SubmissionPrepends(status) ==
    IF XferSignedStep
    THEN /\ transactions' # <<>>
         /\ IsSpeculativeHead(Head(transactions'), status)
         /\ Tail(transactions') =
               SubSeq(transactions, 1,
                      Min(Len(transactions), MAX_TRANSACTION_HISTORY - 1))
    ELSE UNCHANGED transactions

C14_SubmittableOnlyWhileValid ==
    [][ XferHandOverStep =>
          /\ validation.addressError = Undefined
          /\ validation.amountError = Undefined
          /\ validation.isValid ]_vars

\* The step in which signAndSendTransaction rejects.  Under SpecXfer the
\* only rejection is the user cancelling the signing prompt.
XferCancelledStep ==
    xfer.pc = "awaitingSignature" /\ xfer'.pc = "idle" /\ ~transferResult'.success

\* Messages of failures other than a cancellation.
OtherFailureMessages ==
    {"Signing failed", "WalletWindowClosedError",
     "NetworkError when attempting to fetch resource",
     "TokenOwnerOffCurveError", "Invalid public key input"}

\* The reasons useTransfer reports for those failures, and its fallbacks.
NonCancelReasons ==
    UNION { {DefaultTransferError(t)} \cup
            {mapErrorToMessage(m, DefaultTransferError(t)) : m \in OtherFailureMessages}
          : t \in {"SOL", "USDC"} }

\* C15: when the user cancels the signing prompt the transfer ends as
\* failed, with a reason that differs from the reason of every other
\* signing or infrastructure failure and from the generic fallback.
C15_CancelReasonDistinct ==
    [][ XferCancelledStep =>
          /\ transferResult'.error = transferError'
          /\ transferError' # Null
          /\ transferError' \notin NonCancelReasons ]_vars

(***************************************************************************)
(* The transfer form against a wallet SDK that may reject with anything    *)
(***************************************************************************)
SettleSignOutcomes == XferSignOutcomes \cup {"Signing failed", Undefined}

SettleNext ==
    \/ XferNext
    \/ \E o \in SettleSignOutcomes \ XferSignOutcomes :
          SignAndSendReturn(o) /\ UNCHANGED <<chainVars, balVars, histRest, confVars, authVars, pureVars>>

SpecSettle == XferInit /\ [][SettleNext]_vars

\* C16: every asynchronous operation settles by resolving to a success or a
\* failure value and never rejects to its caller, whatever the RPC client
\* or the wallet SDK throws: refreshBalances and refreshTransactionHistory
\* end idle with the loading flag cleared, and the promise of transfer
\* never rejects.
C16_OperationsNeverReject ==
    /\ ~transferResult.rejected
    /\ xfer.pc = "idle" => ~isProcessing
    /\ (\A c \in BalCallIds : balCalls[c].pc = "idle") => ~isLoadingBalances

(***************************************************************************)
(* Claims about the life of a transfer (checked under SpecLife)            *)
(***************************************************************************)
\* C11: when a history refresh replaces the speculative record of a
\* submitted transfer (amount -A) by the record of the same signature found
\* confirmed on the chain, the new record has status confirmed and the same
\* signed amount -A.
C11_ConfirmedKeepsSpeculativeAmount ==
    [][ \A i \in DOMAIN transactions, j \in DOMAIN transactions' :
          ( /\ transactions[i].signature = transactions'[j].signature
            /\ transactions[i].status = SubmittedStatus
            /\ transactions'[j].status = "confirmed" )
          => transactions'[j].amount = transactions[i].amount ]_vars

\* C12: whatever the interleaving of history refreshes and speculative
\* prepends, no two records of the transaction list carry the same
\* signature.
C12_SignaturesUnique ==
    \A i, j \in DOMAIN transactions :
       transactions[i].signature = transactions[j].signature => i = j

\* C13: the transaction list never holds more than MAX_TRANSACTION_HISTORY
\* records, and addTransaction on a full list drops the last (oldest)
\* record, puts the new record first and keeps the surviving records in
\* their order.
C13_ListCappedOldestDropped ==
    /\ [](Len(transactions) <= MAX_TRANSACTION_HISTORY)
    /\ [][ (XferSignedStep /\ Len(transactions) = MAX_TRANSACTION_HISTORY) =>
            /\ Len(transactions') = MAX_TRANSACTION_HISTORY
            /\ transactions'[1].signature = transactionSignature'
            /\ \A k \in 1..(MAX_TRANSACTION_HISTORY - 1) :
                  transactions'[k + 1] = transactions[k] ]_vars

\* A second transfer was signed while the list was full: its record is
\* first, the former first record second, and the oldest signature of the
\* account is gone.
C13_Witness ==
    /\ Len(transactions) = MAX_TRANSACTION_HISTORY
    /\ transferResult.success
    /\ transactions[1].signature = SdkSignature(2)
    /\ transactions[1].status = SubmittedStatus
    /\ transactions[2].signature = SdkSignature(1)
    /\ transactions[MAX_TRANSACTION_HISTORY].signature = 2

(***************************************************************************)
(* Claims about repeated refreshes (checked under SpecStill)               *)
(***************************************************************************)
\* Invocation c of refreshBalances had all its queries answered.
BalAnswered(call) == call.outcome = "ok" /\ ~call.usdcThrew

\* Invocation h of refreshTransactionHistory had all its queries answered.
HistAnswered(call) ==
    /\ call.outcome \in {"published", "empty"}
    /\ ~call.sigsFailed
    /\ \A k \in DOMAIN call.outcomes : call.outcomes[k] = "found"

\* The step in which invocation h of refreshTransactionHistory publishes.
HistEndStep(h) == histCalls[h].pc # "idle" /\ histCalls'[h].pc = "idle"

InvolvesActiveAccount(ins) ==
    /\ \/ ins.program = "system" /\ ins.type = "transfer"
       \/ ins.program = "spl-token" /\ ins.type \in {"transfer", "transferChecked"}
    /\ {ins.source, ins.destination} \cap {SelfAddr, SelfAta} # {}

IsSource(ins) == ins.source \in {SelfAddr, SelfAta}

\* The records parsed from the transaction of the account.
ParsedRecords ==
    {transactions[k] : k \in {j \in DOMAIN transactions :
                                 /\ transactions[j].signature = ParseSig
                                 /\ transactions[j].status = "confirmed"}}

\* C19: the parsed amount is signed: positive when the active account is
\* the destination of the matched transfer instruction, negative when it
\* is the source, for native and for token transfers.
C19_ParsedAmountSigned ==
    \A rec \in ParsedRecords :
       rec.amount # 0 =>
          \E i \in DOMAIN chainTxs[1] :
             LET ins == chainTxs[1][i] IN
             /\ InvolvesActiveAccount(ins)
             /\ rec.amount = IF IsSource(ins) THEN 0 - ins.amount ELSE ins.amount

\* The positions of the instructions that involve the active account.
MatchingPositions ==
    {i \in DOMAIN chainTxs[1] : InvolvesActiveAccount(chainTxs[1][i])}

\* C20: the first instruction, in list order, that is a native or token
\* transfer with the active account as source or destination fixes the
\* magnitude of the amount and the counterparty (the other party of that
\* instruction), later ones are ignored; without such an instruction the
\* result is amount 0, empty counterparty, type other.
C20_FirstMatchingInstructionDecides ==
    \A rec \in ParsedRecords :
       IF MatchingPositions = {}
       THEN rec.amount = 0 /\ rec.recipientAddress = "" /\ rec.type = "other"
       ELSE LET first == CHOOSE i \in MatchingPositions :
                            \A j \in MatchingPositions : i <= j
                ins == chainTxs[1][first]
            IN  /\ Abs(rec.amount) = ins.amount
                /\ rec.recipientAddress =
                      IF IsSource(ins) THEN ins.destination ELSE ins.source
                /\ rec.type = "transfer"

\* The programs of the transfer instructions of the transaction.
TransferPrograms ==
    {chainTxs[1][i].program :
        i \in {j \in DOMAIN chainTxs[1] :
                  chainTxs[1][j].type \in {"transfer", "transferChecked"}}}

\* C21: the record built for a resolved transaction carries the token type
\* of the matched instruction: a record matched on an spl-token transfer has
\* token type USDC and a description scaled by 6 decimals, one matched on a
\* system transfer has token type SOL and 9 decimals.  (Stated on the
\* transactions whose transfer instructions are all of one program, where
\* the program of the matched instruction is beyond doubt.)
C21_RecordCarriesTokenType ==
    \A rec \in ParsedRecords :
       rec.type = "transfer" =>
          /\ TransferPrograms = {"spl-token"} =>
                rec.tokenType = "USDC" /\ rec.description.decimals = USDC_DECIMALS
          /\ TransferPrograms = {"system"} =>
                rec.tokenType = "SOL" /\ rec.description.decimals = SOL_DECIMALS

(***************************************************************************)
(* Claims about the order of a transfer attempt (checked under SpecXfer)   *)
(***************************************************************************)
\* The step in which an attempt calls signAndSendTransaction.
XferSignCallStep == xfer.pc # "awaitingSignature" /\ xfer'.pc = "awaitingSignature"

C23_WaitFailureChecksStatus ==
    [][ /\ ( /\ detail'.pc = "done" /\ detail.pc # "done"
              /\ detail'.waitFailed
              /\ detail'.result = <<>> ) => detail'.statusChecked
        /\ ( detail.pc = "status" /\ detail'.pc = "done" ) => detail'.result = <<>>
        /\ ( /\ detail'.pc = "done" /\ detail.pc # "done"
              /\ detail'.statusChecked
              /\ detail'.result # <<>> ) =>
                 /\ detail.pc = "fetching"
                 /\ detail'.result = <<ChainTx(detail.signature)>> ]_vars

(***************************************************************************)
(* Claims about waitForTransactionConfirmation (checked under SpecWait)    *)
(***************************************************************************)
\* What a step of a call under way does, by where the call stands.
WaitStepRule ==
    /\ (wait.pc = "sleeping" /\ wait' # wait) =>
          /\ wait'.elapsed = wait.elapsed + PollIntervalMs
          /\ wait'.pc = IF wait'.elapsed >= wait.timeoutMs
                         THEN "done" ELSE "polling"
          /\ (wait'.pc = "done" => ~wait'.result)
    /\ (wait.pc = "polling" /\ wait' # wait) =>
          /\ (wait'.lastPoll \in {"confirmed", "finalized"} =>
                 (wait'.pc = "done" /\ wait'.result))
          /\ (wait'.lastPoll \in {"throw", "null", "processed"} =>
                 wait'.pc = "sleeping")
    /\ (wait'.pc = "done" /\ wait' # wait /\ ~wait'.result) =>
          wait'.elapsed >= wait'.timeoutMs

\* C24: waitForTransactionConfirmation always terminates: every call under
\* way comes to return; between two status queries it waits the fixed
\* polling interval; it returns true in the very round whose query reports
\* confirmed or finalized, and only then; it returns false only once the
\* timeout has elapsed, and a round that finds the timeout elapsed returns
\* false; a query that throws (or reports anything else) counts as not yet
\* confirmed and the call goes on to the next round.
C24_WaitTerminates ==
    /\ [][WaitStepRule]_vars
    /\ []((wait.pc = "done" /\ wait.result) =>
              wait.lastPoll \in {"confirmed", "finalized"})
    /\ (wait.pc \in {"polling", "sleeping"} ~> wait.pc = "done")

C24_Witness ==
    /\ wait.pc = "done"
    /\ ~wait.result
    /\ wait.timeoutMs = DefaultTimeoutMs
    /\ wait.lastPoll = "throw"
    /\ wait.elapsed > DefaultTimeoutMs

(***************************************************************************)
(* Claims about the validation functions (checked under SpecValid)         *)
(***************************************************************************)
\* The decimal places the selected token allows.
TokenDecimals(token) == IF token = "SOL" THEN SOL_DECIMALS ELSE USDC_DECIMALS

\* The reasons reported for a call: address error, own-address error and
\* amount error, as far as present.
ReportedReasons ==
    {validateCall.result.addressError, validateCall.result.amountError,
     validateCall.ownError} \ {Null, Undefined}

\* The failure class of the first failing check of a call, by the order
\* recipient, amount sign, balance, precision; "none" when no check fails.
FirstFailure ==
    LET c == validateCall
        parsed == parseFloat(c.amount)
    IN  IF c.recipient = EmptyAddr THEN "empty recipient"
        ELSE IF ~(isValidSolanaAddress(c.recipient) /\ PublicKeyConstructs(c.recipient))
        THEN "malformed address"
        ELSE IF c.recipient = SelfAddr THEN "self-transfer"
        ELSE IF c.amount = "" \/ parsed = NaN THEN "no amount"
        ELSE IF parsed <= 0 THEN "zero or negative amount"
        ELSE IF ExceedsBalance(parsed, c.units, UnitsPerToken(c.token))
        THEN "insufficient balance"
        ELSE IF DecimalCount(c.amount) > TokenDecimals(c.token)
        THEN "too many decimal places"
        ELSE "none"

\* The reasons that stand for a failure class.
ReasonsOf(class) ==
    CASE class = "empty recipient" -> {"Recipient address is required"}
      [] class = "malformed address" ->
            {"Invalid Solana address format", "Invalid Solana address"}
      [] class = "self-transfer" -> {"Cannot send to your own address"}
      [] class = "no amount" -> {"Amount is required", "Please enter a valid amount"}
      [] class = "zero or negative amount" -> {"Amount must be greater than 0"}
      [] class = "insufficient balance" -> {"Insufficient balance"}
      [] class = "too many decimal places" ->
            {"Too many decimal places (max 6)", "Too many decimal places (max 9)"}
      [] OTHER -> {}

\* C25: transfer validation reports a distinct reason for each failure
\* class (empty recipient, malformed address, self-transfer, zero or
\* negative amount, insufficient balance, too many decimal places for the
\* selected token: 6 for USDC, 9 for SOL); the reason of the first failing
\* check is reported, and a request that fails no check is valid and has
\* no reason reported.
C25_FirstFailingReasonReported ==
    validateCall.called =>
       IF FirstFailure = "none"
       THEN validateCall.result.isValid /\ ReportedReasons = {}
       ELSE /\ ReportedReasons \cap ReasonsOf(FirstFailure) # {}
            /\ ~(validateCall.result.isValid /\ validateCall.ownError = Null)

(***************************************************************************)
(* Claims about the session (checked under SpecAuth)                       *)
(***************************************************************************)
\* C26: a failed automatic reconnect is silent: in the step in which
\* reconnect() returns false, the error that useLazorkit() exposes to the
\* login form is null; only a failing connect() leaves an error to show.
C26_FailedReconnectSilent ==
    [][ ( /\ authCall.pc = "reconnect"
          /\ authCall'.pc = "idle"
          /\ ~authCall'.returned ) =>
             /\ operationError'["PasskeyLogin"] = Null
             /\ contextError' = Null ]_vars

\* C30: on logout the notification 'Logged out successfully' and the
\* redirect to the landing page happen only if disconnect succeeded: in
\* the step in which disconnect() returns false no notification is added,
\* the page stays, and the session is still connected.
C30_LogoutOnlyOnSuccess ==
    [][ ( /\ authCall.pc = "disconnect"
          /\ authCall'.pc = "idle"
          /\ ~authCall'.returned ) =>
             /\ toasts' = toasts
             /\ route' = route
             /\ isConnected' ]_vars

(***************************************************************************)
(* Claims about refreshes overlapping a submission (checked under SpecLife) *)
(***************************************************************************)
\* C27: a speculative record stays in the list until a history refresh
\* that started after the submission publishes: a refresh that was already
\* under way when the transfer was submitted keeps, when it publishes,
\* every speculative record submitted since it started.
C27_InFlightRefreshKeepsSpeculative ==
    [][ \A h \in HistCallIds :
          HistEndStep(h) =>
             \A i \in DOMAIN transactions :
                ( /\ transactions[i].status = SubmittedStatus
                  /\ transactions[i].signature >= SdkSignature(histCalls[h].startedAt) )
                => \E j \in DOMAIN transactions' :
                      transactions'[j].signature = transactions[i].signature ]_vars

(***************************************************************************)
(* Claims about the loading flags (checked under SpecBal)                  *)
(***************************************************************************)
\* C28: isLoadingBalances is true in every state in which some
\* refreshBalances call is in flight, and isLoadingTransactions in every
\* state in which some refreshTransactionHistory call is in flight, also
\* when calls overlap; each flag is false once no call of its kind is in
\* flight.
C28_LoadingFlagsFollowCalls ==
    /\ isLoadingBalances <=> (\E c \in BalCallIds : balCalls[c].pc # "idle")
    /\ isLoadingTransactions <=> (\E h \in HistCallIds : histCalls[h].pc # "idle")

(***************************************************************************)
(* Claims about the processing flag (checked under SpecSettle)             *)
(***************************************************************************)
\* C29: isProcessing is true exactly while a transfer attempt is between
\* its start and its outcome, and false after every outcome (success,
\* failed check, failed instruction building, failed or cancelled signing,
\* also when the attempt ends by rejecting): no outcome leaves the form in
\* the processing state.
C29_ProcessingExactlyDuringAttempt ==
    /\ [](isProcessing <=> xfer.pc # "idle")
    /\ [][ (xfer'.pc = "idle" /\ (xfer.pc # "idle" \/ transferResult' # transferResult))
              => ~isProcessing' ]_vars

C29_Witness ==
    /\ transferResult.rejected
    /\ xfer.pc = "idle"
    /\ ~isProcessing
    /\ transactions # <<>>

====
